---- MODULE Spec2Model ----
(***************************************************************************)
(* Model of src/linux.rs of local-ip-address: the netlink route query      *)
(* local_ip() and the getifaddrs walk find_af_inet().                      *)
(*                                                                         *)
(* Data representation                                                     *)
(*   - a byte is a number in 0..255; memory is a sequence of bytes;        *)
(*   - a u32 is the sequence of its four base-256 digits, most significant *)
(*     digit first (0x0100007F is <<1, 0, 0, 127>>), so that byte swaps    *)
(*     are exact and no 32-bit arithmetic is needed;                       *)
(*   - a String is the sequence of its UTF-8 bytes;                        *)
(*   - a pointer into the OS list is the index of a node, 0 is null.       *)
(***************************************************************************)
EXTENDS Integers, Sequences, FiniteSets, TLC

(* ---------------------------- bounds ----------------------------------- *)
MaxNodes == 3
MaxMsgs == 3
\* the input bounds used when two calls run concurrently
ConcNodes == 2
ConcMsgs == 1

(* ------------------------ program constants ---------------------------- *)
AF_INET == 2
AF_INET6 == 10
AF_PACKET == 17

NULL == 0

VARIABLES
    little,             \* cfg!(target_endian = "little") of the build
    pc,                 \* position of the find_af_inet call
    getifaddrs_result,  \* return code of getifaddrs
    ifaddrs_list,       \* the OS-owned linked list: node index -> record
    list_head,          \* the head pointer getifaddrs stored (ghost copy)
    myaddr,             \* *myaddr, the contents of the malloc'ed list handle
    interfaces,         \* the Vec<(String, IpAddr)> being accumulated
    result,             \* the value find_af_inet returned
    freeifaddrs_calls,  \* number of freeifaddrs calls made on the OS list
    visited,            \* the nodes the loop body has run on, in order
    node_reads,         \* number of evaluations of the loop condition on a node
    entry_node,         \* for each entry of interfaces, the node it was pushed for
    nullDeref,          \* TRUE once a null pointer has been dereferenced
    rpc,                \* position of the local_ip call
    netlink_socket,     \* "none", "open" or "dropped"
    socket_drops,       \* number of times the socket was dropped (closed)
    stream,             \* the kernel's response stream, fixed once the send succeeded
    stream_pos,         \* number of stream items the iterator has yielded
    stream_closes,      \* TRUE when the stream signals its end after its last item,
                        \* FALSE when the kernel stops responding instead
    stream_ended,       \* TRUE once the iterator has returned None
    addrs,              \* the Vec<Ipv4Addr> being accumulated
    rresult,            \* the value local_ip returned
    events,             \* the calls made on the channel so far, in order
    call_no,            \* 1 during the first call of the caller, 2 during a repeated call
    prev,               \* what the first call was given and what it returned
    concurrent          \* TRUE when the two functions run in two threads of one process

enumVars == <<pc, getifaddrs_result, ifaddrs_list, list_head, myaddr, interfaces,
              result, freeifaddrs_calls, visited, node_reads, entry_node, nullDeref>>
routeVars == <<rpc, netlink_socket, socket_drops, stream, stream_closes, stream_pos,
               stream_ended, addrs, rresult, events>>
ctlVars == <<call_no, prev, concurrent>>
vars == <<little, enumVars, routeVars, ctlVars>>

(* ------------------------- byte-level helpers -------------------------- *)
Reverse(s) == [i \in 1..Len(s) |-> s[Len(s) + 1 - i]]

\* reading a u32 out of four bytes of memory in the host's byte order
U32FromNeBytes(mem, le) == IF le THEN Reverse(mem) ELSE mem

\* u32::swap_bytes
SwapBytes(x) == Reverse(x)

\* Ipv4Addr::from(u32): the most significant byte is the first octet
Ipv4AddrFromU32(x) == x

IpAddrV4(octets) == [tag |-> "V4", octets |-> octets]
IpAddrV6(octets) == [tag |-> "V6", octets |-> octets]

\* mutant: the swap done on every host
Ipv4Convert_AlwaysSwap(sin_addr, le) ==
    Ipv4AddrFromU32(SwapBytes(U32FromNeBytes(sin_addr, le)))

\* the IPv4 branch of the walk: s_addr read in host order, swapped on little endian
Ipv4Convert(sin_addr, le) ==
    LET s_addr == U32FromNeBytes(sin_addr, le)
    IN  IF le THEN Ipv4AddrFromU32(SwapBytes(s_addr)) ELSE Ipv4AddrFromU32(s_addr)

\* the IPv6 branch of the walk: the 16 bytes are copied as they are
Ipv6Convert(sin6_addr) == sin6_addr

\* libc strlen: number of bytes before the first NUL of the buffer
RECURSIVE strlen(_)
strlen(buf) == IF buf = <<>> \/ Head(buf) = 0 THEN 0 ELSE 1 + strlen(Tail(buf))

IsCont(b) == b >= 128 /\ b <= 191

\* String::from_utf8's validity test
RECURSIVE IsUtf8(_)
IsUtf8(bs) ==
    IF bs = <<>> THEN TRUE
    ELSE LET b == bs[1]
             n == Len(bs)
         IN  IF b < 128 THEN IsUtf8(Tail(bs))
             ELSE IF b >= 194 /\ b <= 223
                  THEN n >= 2 /\ IsCont(bs[2]) /\ IsUtf8(SubSeq(bs, 3, n))
             ELSE IF b >= 224 /\ b <= 239
                  THEN /\ n >= 3 /\ IsCont(bs[2]) /\ IsCont(bs[3])
                       /\ (b = 224 => bs[2] >= 160)
                       /\ (b = 237 => bs[2] <= 159)
                       /\ IsUtf8(SubSeq(bs, 4, n))
             ELSE IF b >= 240 /\ b <= 244
                  THEN /\ n >= 4 /\ IsCont(bs[2]) /\ IsCont(bs[3]) /\ IsCont(bs[4])
                       /\ (b = 240 => bs[2] >= 144)
                       /\ (b = 244 => bs[2] <= 143)
                       /\ IsUtf8(SubSeq(bs, 5, n))
             ELSE FALSE

\* mutant: the bytes taken as text without validation
get_ifa_name_Unchecked(node) ==
    [ok |-> TRUE, name |-> SubSeq(node.ifa_name, 1, strlen(node.ifa_name))]

\* get_ifa_name: the bytes before the NUL, accepted only when they are UTF-8
get_ifa_name(node) ==
    LET slice == SubSeq(node.ifa_name, 1, strlen(node.ifa_name))
    IN  IF IsUtf8(slice) THEN [ok |-> TRUE, name |-> slice]
        ELSE [ok |-> FALSE, name |-> slice]

(* ------------------ what getifaddrs can hand back ---------------------- *)
\* name buffers, NUL terminated: "", "lo", "é0" and an invalid one (0xFF 'x')
NamePool == { <<0>>, <<108, 111, 0>>, <<195, 169, 48, 0>>, <<255, 120, 0>> }

Loopback4 == <<127, 0, 0, 1>>
Swapped4 == <<1, 0, 0, 127>>
LinkLocal6 == <<254, 128, 0, 0, 0, 0, 0, 0, 0, 0, 0, 0, 0, 0, 0, 1>>

NullSockaddr == [isnull |-> TRUE, sa_family |-> 0, bytes |-> <<>>]
\* the sockaddr records a non-null ifa_addr can point to
SockaddrPool ==
    { [isnull |-> FALSE, sa_family |-> AF_INET, bytes |-> Loopback4],
      [isnull |-> FALSE, sa_family |-> AF_INET, bytes |-> Swapped4],
      [isnull |-> FALSE, sa_family |-> AF_INET6, bytes |-> LinkLocal6],
      [isnull |-> FALSE, sa_family |-> AF_PACKET, bytes |-> <<>>] }
AddrPool == SockaddrPool \cup {NullSockaddr}

RcSet == {0, -1}

NoResult == [kind |-> "None", val |-> <<>>]
Ok(v) == [kind |-> "Ok", val |-> v]
Err(k, v) == [kind |-> k, val |-> v]

\* the linked list of n nodes: node i points to node i + 1, the last to null
MkList(n, names, sas) ==
    [i \in 1..n |-> [ifa_next |-> IF i < n THEN i + 1 ELSE NULL,
                     ifa_name |-> names[i],
                     ifa_addr |-> sas[i]]]

(* ------------------------------ Init ----------------------------------- *)
\* the frame of a find_af_inet call that has not run yet
EnumFresh ==
    /\ getifaddrs_result = 0
    /\ ifaddrs_list = <<>>
    /\ list_head = NULL
    /\ myaddr = NULL
    /\ interfaces = <<>>
    /\ result = NoResult
    /\ freeifaddrs_calls = 0
    /\ visited = <<>>
    /\ node_reads = 0
    /\ entry_node = <<>>
    /\ nullDeref = FALSE

EnumInit == pc = "start" /\ EnumFresh

\* the frame of a local_ip call that has not run yet
RouteFresh ==
    /\ netlink_socket = "none"
    /\ socket_drops = 0
    /\ stream = <<>>
    /\ stream_closes = TRUE
    /\ stream_pos = 0
    /\ stream_ended = FALSE
    /\ addrs = <<>>
    /\ rresult = NoResult
    /\ events = <<>>

RouteInit == rpc = "start" /\ RouteFresh

NoPrev == [result |-> NoResult, list |-> <<>>, rc |-> 0, nullDeref |-> FALSE,
           rresult |-> NoResult, stream |-> <<>>, closes |-> TRUE, events |-> <<>>]

\* one call at a time, nothing called before
CtlInit ==
    /\ call_no = 1
    /\ prev = NoPrev
    /\ concurrent = FALSE

Init ==
    /\ little \in BOOLEAN
    /\ EnumInit
    /\ RouteInit
    /\ CtlInit

NodeBound == IF concurrent THEN ConcNodes ELSE MaxNodes
MsgBound == IF concurrent THEN ConcMsgs ELSE MaxMsgs

(* --------------------------- find_af_inet ------------------------------ *)
\* mutant: the return code is not looked at and the walk starts
GetifaddrsFail_NoReturn ==
    /\ pc = "start"
    /\ \E rc \in RcSet \ {0} : getifaddrs_result' = rc
    /\ pc' = "walk"
    /\ UNCHANGED <<little, ctlVars, ifaddrs_list, list_head, myaddr, interfaces, result,
                   freeifaddrs_calls, visited, node_reads, entry_node, nullDeref,
                   routeVars>>

\* lines 117-123: malloc the handle, call getifaddrs, return on a non-zero code
GetifaddrsFail ==
    /\ pc = "start"
    /\ \E rc \in RcSet \ {0} :
        /\ getifaddrs_result' = rc
        /\ result' = Err("GetIfAddrsError", rc)
    /\ pc' = "done"
    /\ UNCHANGED <<little, ctlVars, ifaddrs_list, list_head, myaddr, interfaces,
                   freeifaddrs_calls, visited, node_reads, entry_node, nullDeref,
                   routeVars>>

\* lines 117-126: getifaddrs returned 0 and stored the head of a fresh list. A
\* repeated call gets a list of the same contents as the first call.
GetifaddrsOk ==
    /\ pc = "start"
    /\ getifaddrs_result' = 0
    /\ IF call_no = 1
       THEN \E n \in 0..NodeBound :
                \E names \in [1..n -> NamePool], sas \in [1..n -> AddrPool] :
                    ifaddrs_list' = MkList(n, names, sas)
       ELSE ifaddrs_list' = prev.list
    /\ list_head' = IF Len(ifaddrs_list') > 0 THEN 1 ELSE NULL
    /\ myaddr' = IF Len(ifaddrs_list') > 0 THEN 1 ELSE NULL
    /\ interfaces' = <<>>
    /\ entry_node' = <<>>
    /\ pc' = "walk"
    /\ UNCHANGED <<little, ctlVars, result, freeifaddrs_calls, visited, node_reads,
                   nullDeref, routeVars>>

\* line 134 with *ifa null: the read of ifa_next goes through a null pointer.
\* The build either faults or reads some value; a null value ends the loop.
WalkNullHead ==
    /\ pc = "walk"
    /\ myaddr = NULL
    /\ nullDeref' = TRUE
    /\ \/ /\ pc' = "crashed"
          /\ UNCHANGED result
       \/ /\ pc' = "done"
          /\ result' = Ok(interfaces)
    /\ UNCHANGED <<little, ctlVars, getifaddrs_result, ifaddrs_list, list_head, myaddr,
                   interfaces, freeifaddrs_calls, visited, node_reads, entry_node,
                   routeVars>>

\* lines 134, 181: the loop condition fails on a node whose ifa_next is null
WalkExit ==
    /\ pc = "walk"
    /\ myaddr # NULL
    /\ ifaddrs_list[myaddr].ifa_next = NULL
    /\ node_reads' = node_reads + 1
    /\ result' = Ok(interfaces)
    /\ pc' = "done"
    /\ UNCHANGED <<little, ctlVars, getifaddrs_result, ifaddrs_list, list_head, myaddr,
                   interfaces, freeifaddrs_calls, visited, entry_node, nullDeref,
                   routeVars>>

\* the sockaddr the match at line 137 sees: the record itself, or, through a
\* null ifa_addr, whatever the faulting read produces
ReadSockaddr(node) ==
    IF node.ifa_addr.isnull THEN SockaddrPool ELSE {node.ifa_addr}

\* mutant: the branch of the other families does not advance the cursor
WalkBody_NoAdvance(sa) ==
    LET node == ifaddrs_list[myaddr]
        name == get_ifa_name(node)
        ip == IF sa.sa_family = AF_INET
              THEN IpAddrV4(Ipv4Convert(sa.bytes, little))
              ELSE IpAddrV6(Ipv6Convert(sa.bytes))
    IN  IF sa.sa_family \in {AF_INET, AF_INET6}
        THEN IF name.ok
             THEN /\ interfaces' = Append(interfaces, <<name.name, ip>>)
                  /\ entry_node' = Append(entry_node, myaddr)
                  /\ myaddr' = node.ifa_next
                  /\ UNCHANGED <<pc, result>>
             ELSE /\ result' = Err("IntAddrNameParseError", name.name)
                  /\ pc' = "done"
                  /\ UNCHANGED <<interfaces, entry_node, myaddr>>
        ELSE UNCHANGED <<myaddr, interfaces, entry_node, pc, result>>

\* lines 134-179: one iteration of the loop on a node whose ifa_next is not null
WalkBody(sa) ==
    LET node == ifaddrs_list[myaddr]
        name == get_ifa_name(node)
        ip == IF sa.sa_family = AF_INET
              THEN IpAddrV4(Ipv4Convert(sa.bytes, little))
              ELSE IpAddrV6(Ipv6Convert(sa.bytes))
    IN  IF sa.sa_family \in {AF_INET, AF_INET6}
        THEN IF name.ok
             THEN /\ interfaces' = Append(interfaces, <<name.name, ip>>)
                  /\ entry_node' = Append(entry_node, myaddr)
                  /\ myaddr' = node.ifa_next
                  /\ UNCHANGED <<pc, result>>
             ELSE /\ result' = Err("IntAddrNameParseError", name.name)
                  /\ pc' = "done"
                  /\ UNCHANGED <<interfaces, entry_node, myaddr>>
        ELSE /\ myaddr' = node.ifa_next
             /\ UNCHANGED <<interfaces, entry_node, pc, result>>

\* mutant: the next node is copied over the current one (**ifa = *next)
\* instead of the handle being moved (*ifa = next)
WalkStep_CopiesNode ==
    /\ pc = "walk"
    /\ myaddr # NULL
    /\ ifaddrs_list[myaddr].ifa_next # NULL
    /\ ~ifaddrs_list[myaddr].ifa_addr.isnull
    /\ visited' = Append(visited, myaddr)
    /\ node_reads' = node_reads + 1
    /\ LET node == ifaddrs_list[myaddr]
           sa == node.ifa_addr
           name == get_ifa_name(node)
           ip == IF sa.sa_family = AF_INET
                 THEN IpAddrV4(Ipv4Convert(sa.bytes, little))
                 ELSE IpAddrV6(Ipv6Convert(sa.bytes))
           copy == ifaddrs_list' = [ifaddrs_list EXCEPT ![myaddr] = ifaddrs_list[node.ifa_next]]
       IN  IF sa.sa_family \in {AF_INET, AF_INET6}
           THEN IF name.ok
                THEN /\ interfaces' = Append(interfaces, <<name.name, ip>>)
                     /\ entry_node' = Append(entry_node, myaddr)
                     /\ copy
                     /\ UNCHANGED <<pc, result>>
                ELSE /\ result' = Err("IntAddrNameParseError", name.name)
                     /\ pc' = "done"
                     /\ UNCHANGED <<interfaces, entry_node, ifaddrs_list>>
           ELSE /\ copy
                /\ UNCHANGED <<interfaces, entry_node, pc, result>>
    /\ UNCHANGED <<little, ctlVars, getifaddrs_result, list_head, myaddr,
                   freeifaddrs_calls, nullDeref, routeVars>>

WalkStep ==
    /\ pc = "walk"
    /\ myaddr # NULL
    /\ ifaddrs_list[myaddr].ifa_next # NULL
    /\ ~ifaddrs_list[myaddr].ifa_addr.isnull
    /\ visited' = Append(visited, myaddr)
    /\ node_reads' = node_reads + 1
    /\ WalkBody(ifaddrs_list[myaddr].ifa_addr)
    /\ UNCHANGED <<little, ctlVars, getifaddrs_result, ifaddrs_list, list_head,
                   freeifaddrs_calls, nullDeref, routeVars>>

\* line 137 with a null ifa_addr: sa_family is read through a null pointer.
\* The build either faults or goes on with whatever the read produced.
WalkNullAddr ==
    /\ pc = "walk"
    /\ myaddr # NULL
    /\ ifaddrs_list[myaddr].ifa_next # NULL
    /\ ifaddrs_list[myaddr].ifa_addr.isnull
    /\ visited' = Append(visited, myaddr)
    /\ node_reads' = node_reads + 1
    /\ nullDeref' = TRUE
    /\ \/ /\ pc' = "crashed"
          /\ UNCHANGED <<interfaces, entry_node, myaddr, result>>
       \/ \E sa \in ReadSockaddr(ifaddrs_list[myaddr]) : WalkBody(sa)
    /\ UNCHANGED <<little, ctlVars, getifaddrs_result, ifaddrs_list, list_head,
                   freeifaddrs_calls, routeVars>>

EnumNext ==
    \/ GetifaddrsFail
    \/ GetifaddrsOk
    \/ WalkNullHead
    \/ WalkExit
    \/ WalkStep
    \/ WalkNullAddr

Spec == Init /\ [][EnumNext]_vars

(* ------------------- what the kernel can answer ------------------------ *)
RTM_NEWLINK == 16
RTM_NEWADDR == 20
RT_SCOPE_UNIVERSE == 0
RT_SCOPE_HOST == 254
IFA_ADDRESS == 1
IFA_LOCAL == 2

Addr127 == <<127, 0, 0, 1>>
Addr192 == <<192, 168, 1, 50>>
Addr10 == <<10, 0, 0, 5>>
ShortPayload == <<10, 0>>

Attr(t, p) == [rta_type |-> t, payload |-> p]

\* the attribute lists a new-address message can carry
AttrsPool ==
    { <<Attr(IFA_ADDRESS, Addr10)>>,
      <<Attr(IFA_LOCAL, Addr192)>>,
      <<Attr(IFA_ADDRESS, Addr127), Attr(IFA_LOCAL, Addr127)>>,
      <<Attr(IFA_LOCAL, Addr10), Attr(IFA_LOCAL, Addr192)>>,
      <<Attr(IFA_LOCAL, ShortPayload)>>,
      <<Attr(IFA_LOCAL, Addr192), Attr(IFA_LOCAL, ShortPayload)>> }

ScopePool == {RT_SCOPE_UNIVERSE, RT_SCOPE_HOST}

Item(e, pl, ty, sc, at) ==
    [err |-> e, nl_payload |-> pl, nl_type |-> ty, ifa_scope |-> sc, rtattrs |-> at]

\* the items the response iterator can yield: a transport error, an empty
\* message of either type, a message of another type, a new-address header
\* whose payload is not a Payload, and new-address messages
ItemPool ==
    { Item(TRUE, "Empty", RTM_NEWADDR, 0, <<>>),
      Item(FALSE, "Empty", RTM_NEWADDR, 0, <<>>),
      Item(FALSE, "Empty", RTM_NEWLINK, 0, <<>>),
      Item(FALSE, "Payload", RTM_NEWLINK, 0, <<>>),
      Item(FALSE, "Ack", RTM_NEWADDR, 0, <<>>) }
    \cup { Item(FALSE, "Payload", RTM_NEWADDR, sc, at) : sc \in ScopePool, at \in AttrsPool }

(* ------------------------------ local_ip ------------------------------- *)
\* u32::from_be: a swap on a little-endian host, nothing on a big-endian one
U32FromBe(x, le) == IF le THEN SwapBytes(x) ELSE x

\* get_payload_as::<u32>: succeeds when the attribute holds four bytes
GetPayloadAsU32(attr, le) ==
    IF Len(attr.payload) = 4
    THEN [ok |-> TRUE, val |-> U32FromNeBytes(attr.payload, le)]
    ELSE [ok |-> FALSE, val |-> <<>>]

\* lines 71-79: the loop over the attributes of one message, from attribute i;
\* acc is addrs so far. A failed decode ends the walk with ok = FALSE.
RECURSIVE CollectLocal(_, _, _, _)
CollectLocal(rtattrs, i, acc, le) ==
    IF i > Len(rtattrs) THEN [ok |-> TRUE, addrs |-> acc]
    ELSE IF rtattrs[i].rta_type = IFA_LOCAL
         THEN LET p == GetPayloadAsU32(rtattrs[i], le)
              IN  IF p.ok
                  THEN CollectLocal(rtattrs, i + 1,
                                    Append(acc, Ipv4AddrFromU32(U32FromBe(p.val, le))), le)
                  ELSE [ok |-> FALSE, addrs |-> acc]
         ELSE CollectLocal(rtattrs, i + 1, acc, le)

\* mutant: no scope is filtered out
NotUniverse_Never(scope) == FALSE

\* line 67: RtScope::from(p.ifa_scope) != RtScope::Universe
NotUniverse(scope) == scope # RT_SCOPE_UNIVERSE

\* mutant: the last collected address instead of the first
FinalResult_Last(as) ==
    IF as # <<>> THEN Ok(IpAddrV4(as[Len(as)])) ELSE Err("NetlinkFailedToFindLocalIp", <<>>)

\* lines 82-88: the first collected address, or the error
FinalResult(as) ==
    IF as # <<>> THEN Ok(IpAddrV4(as[1])) ELSE Err("NetlinkFailedToFindLocalIp", <<>>)

\* mutant: the socket is leaked on return
ReturnWith_NoDrop(r) ==
    /\ rresult' = r
    /\ rpc' = "done"
    /\ UNCHANGED <<netlink_socket, socket_drops>>

\* returning from local_ip after the socket was opened drops netlink_socket
ReturnWith(r) ==
    /\ rresult' = r
    /\ rpc' = "done"
    /\ netlink_socket' = "dropped"
    /\ socket_drops' = socket_drops + 1

\* lines 39-40: connect fails
ConnectFail ==
    /\ rpc = "start"
    /\ events' = Append(events, "connect_err")
    /\ rresult' = Err("NetlinkIOError", <<>>)
    /\ rpc' = "done"
    /\ UNCHANGED <<little, ctlVars, enumVars, netlink_socket, socket_drops, stream, stream_closes, stream_pos,
                   stream_ended, addrs>>

\* lines 39-43: connect succeeds, the request is built
ConnectOk ==
    /\ rpc = "start"
    /\ events' = Append(events, "connect_ok")
    /\ netlink_socket' = "open"
    /\ rpc' = "send"
    /\ UNCHANGED <<little, ctlVars, enumVars, socket_drops, stream, stream_closes, stream_pos, stream_ended,
                   addrs, rresult>>

\* mutant: the send error is dropped and the receive loop starts
SendFail_Ignored ==
    /\ rpc = "send"
    /\ events' = Append(events, "send_err")
    /\ rpc' = "recv"
    /\ UNCHANGED <<little, ctlVars, enumVars, netlink_socket, socket_drops, stream, stream_closes, stream_pos,
                   stream_ended, addrs, rresult>>

\* lines 45-47: send fails
SendFail ==
    /\ rpc = "send"
    /\ events' = Append(events, "send_err")
    /\ ReturnWith(Err("NetlinkSendMessageError", <<>>))
    /\ UNCHANGED <<little, ctlVars, enumVars, stream, stream_closes, stream_pos, stream_ended, addrs>>

\* the same stream without its empty-payload messages
StripEmpty(st) == SelectSeq(st, LAMBDA it : it.err \/ it.nl_payload # "Empty")

\* lines 45-49: send succeeds; the kernel's answer is now determined. A repeated
\* call gets the stream of the first call, with or without its empty messages.
SendOk ==
    /\ rpc = "send"
    /\ events' = Append(events, "send_ok")
    /\ IF call_no = 1
       THEN /\ \E n \in 0..MsgBound : \E s \in [1..n -> ItemPool] : stream' = s
            /\ stream_closes' \in BOOLEAN
       ELSE /\ stream' \in {prev.stream, StripEmpty(prev.stream)}
            /\ stream_closes' = prev.closes
    /\ addrs' = <<>>
    /\ rpc' = "recv"
    /\ UNCHANGED <<little, ctlVars, enumVars, netlink_socket, socket_drops, stream_pos,
                   stream_ended, rresult>>

\* the iterator yields the next item of the stream
Yield ==
    /\ rpc = "recv"
    /\ stream_pos < Len(stream)
    /\ stream_pos' = stream_pos + 1
    /\ events' = Append(events, "recv")
    /\ UNCHANGED <<little, ctlVars, enumVars, stream, stream_closes, stream_ended>>

NextItem == stream[stream_pos + 1]

Continue == UNCHANGED <<rpc, rresult, netlink_socket, socket_drops>>

\* lines 52-53: the item is an error
RecvErr ==
    /\ Yield
    /\ NextItem.err
    /\ ReturnWith(Err("NetlinkFailedToFindLocalIp", <<>>))
    /\ UNCHANGED addrs

\* mutant: the type is looked at before the payload, also of an empty message
RecvEmpty_TypeFirst ==
    /\ Yield
    /\ ~NextItem.err
    /\ NextItem.nl_payload = "Empty"
    /\ IF NextItem.nl_type # RTM_NEWADDR
       THEN ReturnWith(Err("NetlinkFailedToFindLocalIp", <<>>))
       ELSE Continue
    /\ UNCHANGED addrs

\* lines 55-57: an empty payload is skipped
RecvEmpty ==
    /\ Yield
    /\ ~NextItem.err
    /\ NextItem.nl_payload = "Empty"
    /\ Continue
    /\ UNCHANGED addrs

\* mutant: a message of another type is skipped instead of ending the call
RecvWrongType_Skip ==
    /\ Yield
    /\ ~NextItem.err
    /\ NextItem.nl_payload # "Empty"
    /\ NextItem.nl_type # RTM_NEWADDR
    /\ Continue
    /\ UNCHANGED addrs

\* lines 59-61: a non-empty message of another type
RecvWrongType ==
    /\ Yield
    /\ ~NextItem.err
    /\ NextItem.nl_payload # "Empty"
    /\ NextItem.nl_type # RTM_NEWADDR
    /\ ReturnWith(Err("NetlinkFailedToFindLocalIp", <<>>))
    /\ UNCHANGED addrs

\* lines 63-65: get_payload fails
RecvNoPayload ==
    /\ Yield
    /\ ~NextItem.err
    /\ NextItem.nl_payload # "Empty"
    /\ NextItem.nl_type = RTM_NEWADDR
    /\ NextItem.nl_payload # "Payload"
    /\ ReturnWith(Err("NetlinkFailedToFindLocalIp", <<>>))
    /\ UNCHANGED addrs

\* mutant: the attributes are decoded before the scope is looked at
RecvSkipScope_AttrsFirst ==
    /\ Yield
    /\ ~NextItem.err
    /\ NextItem.nl_type = RTM_NEWADDR
    /\ NextItem.nl_payload = "Payload"
    /\ NotUniverse(NextItem.ifa_scope)
    /\ IF CollectLocal(NextItem.rtattrs, 1, addrs, little).ok
       THEN Continue
       ELSE ReturnWith(Err("NetlinkFailedToFindLocalIp", <<>>))
    /\ UNCHANGED addrs

\* lines 67-69: a scope other than Universe is skipped
RecvSkipScope ==
    /\ Yield
    /\ ~NextItem.err
    /\ NextItem.nl_type = RTM_NEWADDR
    /\ NextItem.nl_payload = "Payload"
    /\ NotUniverse(NextItem.ifa_scope)
    /\ Continue
    /\ UNCHANGED addrs

\* mutant: the call returns as soon as an address has been collected
RecvAttrs_ReturnsEarly ==
    /\ Yield
    /\ ~NextItem.err
    /\ NextItem.nl_type = RTM_NEWADDR
    /\ NextItem.nl_payload = "Payload"
    /\ ~NotUniverse(NextItem.ifa_scope)
    /\ LET c == CollectLocal(NextItem.rtattrs, 1, addrs, little)
       IN  IF c.ok
           THEN /\ addrs' = c.addrs
                /\ IF c.addrs # <<>> THEN ReturnWith(FinalResult(c.addrs)) ELSE Continue
           ELSE /\ ReturnWith(Err("NetlinkFailedToFindLocalIp", <<>>))
                /\ UNCHANGED addrs

\* lines 71-79: the attributes of a universe-scope message
RecvAttrs ==
    /\ Yield
    /\ ~NextItem.err
    /\ NextItem.nl_type = RTM_NEWADDR
    /\ NextItem.nl_payload = "Payload"
    /\ ~NotUniverse(NextItem.ifa_scope)
    /\ LET c == CollectLocal(NextItem.rtattrs, 1, addrs, little)
       IN  IF c.ok
           THEN /\ addrs' = c.addrs
                /\ Continue
           ELSE /\ ReturnWith(Err("NetlinkFailedToFindLocalIp", <<>>))
                /\ UNCHANGED addrs

\* lines 51, 82-88: the iterator is exhausted
RecvEnd ==
    /\ rpc = "recv"
    /\ stream_pos = Len(stream)
    /\ stream_closes
    /\ events' = Append(events, "recv")
    /\ stream_ended' = TRUE
    /\ ReturnWith(FinalResult(addrs))
    /\ UNCHANGED <<little, ctlVars, enumVars, stream, stream_closes, stream_pos, addrs>>

RouteNext ==
    \/ ConnectFail
    \/ ConnectOk
    \/ SendFail
    \/ SendOk
    \/ RecvErr
    \/ RecvEmpty
    \/ RecvWrongType
    \/ RecvNoPayload
    \/ RecvSkipScope
    \/ RecvAttrs
    \/ RecvEnd

SpecRoute == Init /\ [][RouteNext]_vars

(* ------------------------- a repeated call ----------------------------- *)
\* the caller calls find_af_inet a second time: a new frame, nothing kept
EnumRecall ==
    /\ pc = "done"
    /\ call_no = 1
    /\ call_no' = 2
    /\ prev' = [prev EXCEPT !.result = result, !.list = ifaddrs_list,
                            !.rc = getifaddrs_result, !.nullDeref = nullDeref]
    /\ pc' = "start"
    /\ getifaddrs_result' = 0
    /\ ifaddrs_list' = <<>>
    /\ list_head' = NULL
    /\ myaddr' = NULL
    /\ interfaces' = <<>>
    /\ result' = NoResult
    /\ freeifaddrs_calls' = 0
    /\ visited' = <<>>
    /\ node_reads' = 0
    /\ entry_node' = <<>>
    /\ nullDeref' = FALSE
    /\ UNCHANGED <<little, concurrent, routeVars>>

\* the caller calls local_ip a second time: a new frame, nothing kept
RouteRecall ==
    /\ rpc = "done"
    /\ call_no = 1
    /\ call_no' = 2
    /\ prev' = [prev EXCEPT !.rresult = rresult, !.stream = stream,
                            !.closes = stream_closes, !.events = events]
    /\ rpc' = "start"
    /\ netlink_socket' = "none"
    /\ socket_drops' = 0
    /\ stream' = <<>>
    /\ stream_closes' = TRUE
    /\ stream_pos' = 0
    /\ stream_ended' = FALSE
    /\ addrs' = <<>>
    /\ rresult' = NoResult
    /\ events' = <<>>
    /\ UNCHANGED <<little, concurrent, enumVars>>

\* the caller uses one of the two functions, and calls it once or twice
InitTwice ==
    /\ little \in BOOLEAN
    /\ CtlInit
    /\ \/ EnumInit /\ rpc = "idle" /\ RouteFresh
       \/ RouteInit /\ pc = "idle" /\ EnumFresh

TwiceNext ==
    \/ EnumNext
    \/ EnumRecall
    \/ RouteNext
    \/ RouteRecall

SpecTwice == InitTwice /\ [][TwiceNext]_vars

RouteTwiceNext ==
    \/ RouteNext
    \/ RouteRecall

SpecRouteTwice == Init /\ [][RouteTwiceNext]_vars

(* ------------------------ two concurrent calls ------------------------- *)
\* one thread runs find_af_inet while another runs local_ip
InitConc ==
    /\ little \in BOOLEAN
    /\ EnumInit
    /\ RouteInit
    /\ call_no = 1
    /\ prev = NoPrev
    /\ concurrent = TRUE

\* a step of the local_ip thread: a fault in the other thread has ended the
\* whole process, this thread included
RouteThread == pc # "crashed" /\ RouteNext

ConcNext ==
    \/ EnumNext
    \/ RouteThread

SpecConc == InitConc /\ [][ConcNext]_vars

(* ======================= claims on find_af_inet ======================== *)
\* the text of a name buffer: the bytes before its terminating NUL
CName(buf) == SubSeq(buf, 1, Len(buf) - 1)

\* the byte strings of NamePool that are well-formed UTF-8 text
ValidTexts == { <<>>, <<108, 111>>, <<195, 169, 48>> }

IsInetNode(node) ==
    ~node.ifa_addr.isnull /\ node.ifa_addr.sa_family \in {AF_INET, AF_INET6}

\* the address a node holds, its bytes taken in network order
NodeIpAddr(node) ==
    IF node.ifa_addr.sa_family = AF_INET
    THEN [tag |-> "V4", octets |-> node.ifa_addr.bytes]
    ELSE [tag |-> "V6", octets |-> node.ifa_addr.bytes]

\* one (name, address) entry per IPv4 or IPv6 node among nodes i..Len(list)
RECURSIVE ExpectedEntries(_, _)
ExpectedEntries(list, i) ==
    IF i > Len(list) THEN <<>>
    ELSE IF IsInetNode(list[i])
         THEN <<  <<CName(list[i].ifa_name), NodeIpAddr(list[i])>>  >>
              \o ExpectedEntries(list, i + 1)
         ELSE ExpectedEntries(list, i + 1)

\* a list of one or more nodes, each with an address record
WellFormedList ==
    /\ Len(ifaddrs_list) >= 1
    /\ \A i \in 1..Len(ifaddrs_list) : ~ifaddrs_list[i].ifa_addr.isnull

AllInetNamesValid ==
    \A i \in 1..Len(ifaddrs_list) :
        IsInetNode(ifaddrs_list[i]) => CName(ifaddrs_list[i].ifa_name) \in ValidTexts

\* the call has returned, getifaddrs had succeeded and no null pointer was read
ReturnedAfterSuccess == pc = "done" /\ getifaddrs_result = 0 /\ ~nullDeref

\* C1: for a list of one or more nodes the returned vector holds, in list
\* order, exactly one (name, address) entry for every IPv4 or IPv6 node, the
\* tail node (the one whose next pointer is null) included, and none for
\* nodes of other families.
C1_EveryInetNodeListed ==
    (ReturnedAfterSuccess /\ result.kind = "Ok" /\ WellFormedList /\ AllInetNamesValid)
        => result.val = ExpectedEntries(ifaddrs_list, 1)

\* C2: on every return after getifaddrs succeeded, the OS list has been
\* released with the OS deallocation call exactly once.
C2_ListReleasedOnce ==
    ReturnedAfterSuccess => freeifaddrs_calls = 1

\* C6: if some IPv4 or IPv6 node has a name that is not valid text the call
\* fails with IntAddrNameParseError and returns no entries; an invalid name
\* on a node of another family does not make the call fail.
C6_BadNameFailsCall ==
    (ReturnedAfterSuccess /\ WellFormedList)
        => IF AllInetNamesValid
           THEN result.kind = "Ok"
           ELSE result.kind = "IntAddrNameParseError"

\* C8: when getifaddrs returns a non-zero code c the call returns
\* GetIfAddrsError(c) with that code, reads no list node and has no entries.
C8_GetIfAddrsError ==
    getifaddrs_result # 0
        => /\ pc = "done"
           /\ result.kind = "GetIfAddrsError"
           /\ result.val = getifaddrs_result
           /\ node_reads = 0
           /\ visited = <<>>
           /\ interfaces = <<>>

C8_Witness ==
    pc = "done" /\ getifaddrs_result = -1 /\ result.kind = "GetIfAddrsError"

\* the raw 32-bit value the host reads from four bytes of memory
RawValue(mem) == IF little THEN <<mem[4], mem[3], mem[2], mem[1]>> ELSE mem
Swapped(x) == <<x[4], x[3], x[2], x[1]>>

\* C9 (as amended): the raw value is byte-swapped exactly when the host is
\* little-endian; a record whose address bytes in memory are 7F 00 00 01
\* (raw value 0x0100007F as a little-endian host reads it, 0x7F000001 as a
\* big-endian host reads it) yields 127.0.0.1 on both hosts; the 16 bytes of
\* an IPv6 address are never swapped.
C9_ByteOrder ==
    \A k \in 1..Len(interfaces) :
        LET sa == ifaddrs_list[entry_node[k]].ifa_addr
            ip == interfaces[k][2]
        IN  ~sa.isnull =>
              /\ sa.sa_family = AF_INET =>
                    /\ ip.tag = "V4"
                    /\ ip.octets = IF little THEN Swapped(RawValue(sa.bytes))
                                             ELSE RawValue(sa.bytes)
                    /\ sa.bytes = <<127, 0, 0, 1>> => ip.octets = <<127, 0, 0, 1>>
              /\ sa.sa_family = AF_INET6 =>
                    /\ ip.tag = "V6"
                    /\ ip.octets = sa.bytes

\* C9 (as stated): a record with raw value 0x0100007F yields 127.0.0.1 on
\* little-endian and on big-endian hosts.
C9_RawValueYieldsLoopback ==
    \A k \in 1..Len(interfaces) :
        LET sa == ifaddrs_list[entry_node[k]].ifa_addr
        IN  (~sa.isnull /\ sa.sa_family = AF_INET /\ RawValue(sa.bytes) = <<1, 0, 0, 127>>)
                => interfaces[k][2].octets = <<127, 0, 0, 1>>

C9_Witness ==
    /\ pc = "done"
    /\ result.kind = "Ok"
    /\ ~nullDeref
    /\ \E k \in 1..Len(interfaces) :
          /\ ifaddrs_list[entry_node[k]].ifa_addr.bytes = <<127, 0, 0, 1>>
          /\ interfaces[k][2] = [tag |-> "V4", octets |-> <<127, 0, 0, 1>>]
    /\ \E k \in 1..Len(interfaces) : interfaces[k][2].tag = "V6"

\* every entry has an address of its node's family and of that family's size
EntryAddrMatchesNode(k) ==
    LET sa == ifaddrs_list[entry_node[k]].ifa_addr
        ip == result.val[k][2]
    IN  \/ sa.sa_family = AF_INET /\ ip.tag = "V4" /\ Len(ip.octets) = 4
        \/ sa.sa_family = AF_INET6 /\ ip.tag = "V6" /\ Len(ip.octets) = 16

\* C10 (as amended): in every successful result each address is 4 bytes (V4)
\* or 16 bytes (V6) matching the family of its node, and each name is valid
\* text equal to the node's name; the name is empty when the node's name is
\* the empty string.
C10_EntriesWellFormed ==
    (pc = "done" /\ result.kind = "Ok" /\ ~nullDeref)
        => /\ Len(entry_node) = Len(result.val)
           /\ \A k \in 1..Len(result.val) :
                /\ EntryAddrMatchesNode(k)
                /\ result.val[k][1] \in ValidTexts
                /\ result.val[k][1] = CName(ifaddrs_list[entry_node[k]].ifa_name)

\* C10 (as stated): ... and every returned name is non-empty valid text.
C10_NamesNonEmpty ==
    (pc = "done" /\ result.kind = "Ok" /\ ~nullDeref)
        => \A k \in 1..Len(result.val) :
                /\ EntryAddrMatchesNode(k)
                /\ result.val[k][1] \in ValidTexts
                /\ result.val[k][1] # <<>>

C10_Witness ==
    /\ pc = "done"
    /\ result.kind = "Ok"
    /\ ~nullDeref
    /\ \E k \in 1..Len(result.val) : result.val[k][1] = <<>> /\ result.val[k][2].tag = "V4"
    /\ \E k \in 1..Len(result.val) : result.val[k][1] # <<>> /\ result.val[k][2].tag = "V6"

(* ========================= claims on local_ip ========================== *)
SendSucceeded == Len(events) >= 2 /\ events[2] = "send_ok"

\* a decodable new-address message of universe scope
UniverseMsg(it) ==
    /\ ~it.err
    /\ it.nl_payload = "Payload"
    /\ it.nl_type = RTM_NEWADDR
    /\ it.ifa_scope = RT_SCOPE_UNIVERSE

LocalIdx(it) == {j \in 1..Len(it.rtattrs) : it.rtattrs[j].rta_type = IFA_LOCAL}

\* a universe-scope new-address message carrying a local-address attribute
Qualifies(it) == UniverseMsg(it) /\ LocalIdx(it) # {}

Min(S) == CHOOSE x \in S : \A y \in S : x <= y

\* the four failures of the receive loop
IsFailure(it) ==
    \/ it.err
    \/ it.nl_payload # "Empty" /\ it.nl_type # RTM_NEWADDR
    \/ it.nl_payload \notin {"Empty", "Payload"}
    \/ UniverseMsg(it) /\ \E j \in LocalIdx(it) : Len(it.rtattrs[j].payload) # 4

FailureIdx == {i \in 1..Len(stream) : IsFailure(stream[i])}
QualifyingIdx == {i \in 1..Len(stream) : Qualifies(stream[i])}

NumRecv == Cardinality({i \in 1..Len(events) : events[i] = "recv"})

\* C3: for an error-free stream holding at least one universe-scope
\* new-address message with a local-address attribute, local_ip returns Ok
\* with the address of the first such attribute of the first such message.
C3_FirstUniverseLocal ==
    (rpc = "done" /\ SendSucceeded /\ FailureIdx = {} /\ QualifyingIdx # {})
        => LET m == stream[Min(QualifyingIdx)]
           IN  /\ rresult.kind = "Ok"
               /\ rresult.val = [tag |-> "V4", octets |-> m.rtattrs[Min(LocalIdx(m))].payload]

C3_Witness ==
    /\ rpc = "done"
    /\ Len(stream) = 3
    /\ FailureIdx = {}
    /\ stream[1].ifa_scope = RT_SCOPE_HOST /\ LocalIdx(stream[1]) # {}
    /\ Qualifies(stream[2])
    /\ stream[3].ifa_scope = RT_SCOPE_HOST /\ LocalIdx(stream[3]) # {}
    /\ rresult = [kind |-> "Ok", val |-> [tag |-> "V4", octets |-> <<192, 168, 1, 50>>]]

\* C4: when no universe-scope message of the stream carries a local-address
\* attribute local_ip fails with NetlinkFailedToFindLocalIp, and an address
\* it returns is always the local address of some universe-scope message.
C4_NoUniverseNoAddress ==
    (rpc = "done" /\ SendSucceeded)
        => /\ QualifyingIdx = {} => rresult.kind = "NetlinkFailedToFindLocalIp"
           /\ rresult.kind = "Ok" =>
                \E i \in QualifyingIdx : \E j \in LocalIdx(stream[i]) :
                    rresult.val = [tag |-> "V4", octets |-> stream[i].rtattrs[j].payload]

C4_Witness ==
    /\ rpc = "done"
    /\ stream_ended
    /\ QualifyingIdx = {}
    /\ \E i \in 1..Len(stream) :
          /\ stream[i].nl_payload = "Payload"
          /\ stream[i].ifa_scope = RT_SCOPE_HOST
          /\ LocalIdx(stream[i]) # {}
    /\ rresult.kind = "NetlinkFailedToFindLocalIp"

\* C5: the first failure of the stream (transport error, non-empty message of
\* another type, payload decode failure, undecodable local address of a
\* universe-scope message) ends the call with NetlinkFailedToFindLocalIp and
\* no later item is consumed, also when an address was already collected.
C5_FirstFailureEndsCall ==
    (SendSucceeded /\ FailureIdx # {})
        => /\ stream_pos <= Min(FailureIdx)
           /\ ~stream_ended
           /\ rpc = "done" =>
                /\ rresult.kind = "NetlinkFailedToFindLocalIp"
                /\ stream_pos = Min(FailureIdx)
                /\ NumRecv = Min(FailureIdx)

C5_Witness ==
    /\ rpc = "done"
    /\ FailureIdx # {}
    /\ Min(FailureIdx) = 2
    /\ Len(stream) = 3
    /\ addrs # <<>>
    /\ rresult.kind = "NetlinkFailedToFindLocalIp"

\* C7: the steps are open, send, receive in this order: a failed open gives
\* NetlinkIOError with no send and no receive, a failed send gives
\* NetlinkSendMessageError with no receive, and a receive happens only after
\* a successful send.
C7_StepOrder ==
    /\ \A i \in 1..Len(events) :
          /\ events[i] \in {"connect_ok", "connect_err"} <=> i = 1
          /\ events[i] \in {"send_ok", "send_err"} => i = 2 /\ events[1] = "connect_ok"
          /\ events[i] = "recv" => i >= 3 /\ events[2] = "send_ok"
    /\ (Len(events) >= 1 /\ events[1] = "connect_err")
          => Len(events) = 1 /\ rpc = "done" /\ rresult.kind = "NetlinkIOError"
    /\ (Len(events) >= 2 /\ events[2] = "send_err")
          => Len(events) = 2 /\ rpc = "done" /\ rresult.kind = "NetlinkSendMessageError"

C7_Witness ==
    /\ rpc = "done"
    /\ events = <<"connect_ok", "send_err">>
    /\ rresult.kind = "NetlinkSendMessageError"

(* =================== further claims on find_af_inet ==================== *)
NoDuplicates(sq) == \A i, j \in 1..Len(sq) : sq[i] = sq[j] => i = j

\* the number of nodes from the cursor to the tail
Remaining == IF myaddr = NULL THEN 0 ELSE Len(ifaddrs_list) + 1 - myaddr

\* C17: the walk terminates on every finite acyclic list: the walk is never
\* stuck, an iteration that goes on advances the cursor by exactly one node,
\* whatever the family of the node, so that fewer nodes remain; no node is
\* visited twice and there are at most as many iterations as nodes.
C17_WalkTerminates ==
    /\ [](/\ NoDuplicates(visited)
          /\ Len(visited) <= Len(ifaddrs_list)
          /\ node_reads <= Len(ifaddrs_list)
          /\ pc = "walk" => ENABLED EnumNext)
    /\ [][(pc = "walk" /\ pc' = "walk")
            => /\ myaddr # NULL
               /\ myaddr' = ifaddrs_list[myaddr].ifa_next
               /\ visited' = Append(visited, myaddr)
               /\ Remaining' < Remaining]_vars

C17_Witness ==
    /\ pc = "done"
    /\ ~nullDeref
    /\ Len(ifaddrs_list) = 3
    /\ visited = <<1, 2>>
    /\ ifaddrs_list[1].ifa_addr.sa_family = AF_PACKET
    /\ ifaddrs_list[2].ifa_addr.sa_family = AF_INET

\* C18: find_af_inet never modifies the OS list: once getifaddrs has stored
\* it, no record's name, family, address or next pointer changes; the walk
\* writes only the list handle and the result vector.
C18_ListNeverModified ==
    [][pc # "start" => (ifaddrs_list' = ifaddrs_list /\ list_head' = list_head)]_vars

C18_Witness ==
    /\ pc = "done"
    /\ ~nullDeref
    /\ Len(ifaddrs_list) = 3
    /\ myaddr # list_head
    /\ Len(interfaces) = 2

\* C19: the walk never reads through a null pointer, whatever list the OS
\* call returned, the empty list and lists with a null address field included.
C19_NoNullDeref == ~nullDeref

(* ===================== further claims on local_ip ====================== *)
\* C11: a call that opened the routing socket has released it exactly once
\* when it returns, on every exit path, and not before it returns.
C11_SocketReleasedOnce ==
    /\ rpc = "done" =>
          IF events[1] = "connect_ok"
          THEN netlink_socket = "dropped" /\ socket_drops = 1
          ELSE netlink_socket = "none" /\ socket_drops = 0
    /\ rpc # "done" =>
          /\ socket_drops = 0
          /\ netlink_socket = (IF rpc \in {"send", "recv"} THEN "open" ELSE "none")

C11_Witness ==
    /\ rpc = "done"
    /\ FailureIdx # {}
    /\ stream_pos < Len(stream)
    /\ addrs # <<>>
    /\ netlink_socket = "dropped"
    /\ socket_drops = 1

\* a decodable new-address message whose scope is not Universe
NonUniverseMsg(it) ==
    /\ ~it.err
    /\ it.nl_payload = "Payload"
    /\ it.nl_type = RTM_NEWADDR
    /\ it.ifa_scope # RT_SCOPE_UNIVERSE

\* C16: the scope filter runs before the attributes are read: a decodable
\* new-address message of another scope adds no address and causes no
\* failure whatever its attributes hold, and the only messages passed over
\* without an error are empty payloads and messages of another scope.
C16_ScopeFilterFirst ==
    [][stream_pos' = stream_pos + 1 =>
          LET it == stream[stream_pos']
          IN  /\ NonUniverseMsg(it) => (rpc' = "recv" /\ addrs' = addrs /\ rresult' = rresult)
              /\ (rpc' = "recv" /\ ~UniverseMsg(it))
                    => (~it.err /\ it.nl_payload = "Empty") \/ NonUniverseMsg(it)]_vars

C16_Witness ==
    /\ rpc = "done"
    /\ rresult.kind = "Ok"
    /\ \E i \in 1..Len(stream) :
          /\ NonUniverseMsg(stream[i])
          /\ \E j \in LocalIdx(stream[i]) : Len(stream[i].rtattrs[j].payload) # 4

\* C14: local_ip returns only once the stream has signalled its end or at the
\* first failure: with a stream that ends the call is never stuck and each
\* step consumes one item or returns; an address is not returned when it is
\* seen but after the rest of the stream was consumed; with a stream that
\* neither ends nor fails the call never returns and, once the kernel has
\* stopped responding, has no step left (no timeout, no retry).
C14_ReturnsAtEndOrFailure ==
    /\ [](/\ (rpc = "done" /\ SendSucceeded)
                => \/ stream_ended /\ stream_pos = Len(stream)
                   \/ stream_pos >= 1 /\ IsFailure(stream[stream_pos])
          /\ (rpc = "done" /\ rresult.kind = "Ok")
                => stream_closes /\ stream_ended /\ stream_pos = Len(stream)
          /\ (rpc \in {"start", "send"} \/ (rpc = "recv" /\ stream_closes))
                => ENABLED RouteNext
          /\ (rpc = "recv" /\ ~stream_closes /\ FailureIdx = {})
                => (stream_pos = Len(stream) => ~ENABLED RouteNext))
    /\ [][/\ (rpc = "recv" /\ rpc' = "recv") => stream_pos' = stream_pos + 1
          /\ (addrs = <<>> /\ addrs' # <<>>) => rpc' = "recv"]_vars

C14_Witness ==
    /\ rpc = "recv"
    /\ ~stream_closes
    /\ FailureIdx = {}
    /\ Len(stream) = 3
    /\ stream_pos = 3
    /\ Qualifies(stream[1])
    /\ addrs # <<>>

(* ===================== claims on repeated calls ======================== *)
\* the outcomes of connect and send: the first two calls on the channel
OpenAndSend(ev) == SubSeq(ev, 1, IF Len(ev) < 2 THEN Len(ev) ELSE 2)

\* the second local_ip call has returned and met the same connect and send
\* outcomes and the same end of stream as the first
RouteRepeated ==
    /\ call_no = 2
    /\ rpc = "done"
    /\ OpenAndSend(events) = OpenAndSend(prev.events)
    /\ stream_closes = prev.closes

\* the second find_af_inet call has returned on the same return code and the
\* same list contents as the first
EnumRepeated ==
    /\ call_no = 2
    /\ pc = "done"
    /\ getifaddrs_result = prev.rc
    /\ ifaddrs_list = prev.list

SameResult(r1, r2) == r1.kind = r2.kind /\ r1.val = r2.val

C15_EmptyMessagesIgnored ==
    (RouteRepeated /\ StripEmpty(stream) = StripEmpty(prev.stream))
        => SameResult(rresult, prev.rresult)

C15_Witness ==
    /\ RouteRepeated
    /\ rresult.kind = "Ok"
    /\ Len(prev.stream) = 3
    /\ Len(stream) = 1
    /\ \E i \in 1..3 : prev.stream[i].nl_payload = "Empty" /\ prev.stream[i].nl_type = RTM_NEWLINK
    /\ \E i \in 1..3 : prev.stream[i].nl_payload = "Empty" /\ prev.stream[i].nl_type = RTM_NEWADDR
                        /\ ~prev.stream[i].err

(* ==================== claims on concurrent calls ======================= *)
\* local_ip has got as far as it gets when it runs alone: it has returned, or
\* it waits for a kernel that has stopped responding
RouteRanToItsEnd ==
    \/ rpc = "done"
    \/ rpc = "recv" /\ ~stream_closes /\ stream_pos = Len(stream)

\* C13: two calls running in two threads do not affect each other: when no
\* thread has a step left, each call has got as far as it gets when it runs
\* alone, and the call of local_ip has returned what it returns alone.
C13_CallsIndependent ==
    (concurrent /\ ~ENABLED ConcNext)
        => /\ RouteRanToItsEnd
           /\ pc \in {"done", "crashed"}

====
